---- MODULE Spec2Model ----
(***************************************************************************)
(* A model of src/components/Editor.tsx: the Dashboard (page list) and the *)
(* Editor (debounced autosave, image upload) components, and the remote    *)
(* table they talk to.                                                     *)
(*                                                                         *)
(* Every event handler and every continuation after an `await` is one      *)
(* atomic action (the UI thread is single-threaded).  A closure keeps the  *)
(* values of the render it was created in: an asynchronous handler, a      *)
(* timer callback and the onUpdate prop carry the `pages`, `selectedPage`  *)
(* and `title` of that render in their task record.  A request is sent,    *)
(* then served by the backend (its effect on the table), then its answer   *)
(* is processed by the client; requests are served and answered in any     *)
(* order.                                                                  *)
(***************************************************************************)
EXTENDS Integers, Sequences, FiniteSets, Bags, TLC

\* ---------------------------------------------------------------- bounds
\* pages in the table when the application starts: 0..InitPages
InitPages == 2
\* user events (clicks, edits, file selections) in one run
MaxEvents == 2

\* ------------------------------------------------------- program constants
\* the quiet period of the debounce timer, in milliseconds
SaveDelay == 1000

User == "u1"
Titles == {"Untitled", "Hello"}
ImgElement == "img"
PElement == "p"
AlertNotImage == "Please select an image file"
AlertUploadFailed == "Failed to upload image"
NoAlert == ""
\* e.target.files?.[0]: no file, or the file's media type, type/subtype
NoFile == <<>>
Files == {NoFile, <<"image", "png">>, <<"text", "plain">>, <<"application", "image">>}

\* selectedPage = null
NoPage == [id |-> 0, user_id |-> "", title |-> "", content |-> <<>>, updated_at |-> 0]

VARIABLES
  store,         \* the remote table `pages`: id -> row
  nextId,        \* the next id the table assigns
  now,           \* the clock (new Date(), and the table's default timestamps)
  pages,         \* Dashboard: useState<Page[]>
  selectedPage,  \* Dashboard: useState<Page | null>
  loading,       \* Dashboard: useState(true)
  title,         \* Editor: useState(page.title)
  content,       \* Editor: useState(page.content)
  dom,           \* Editor: contentRef.current.innerHTML
  saving,        \* Editor: useState(false)
  uploading,     \* Editor: useState(false)
  tasks,         \* bag of pending timers and of requests sent or answered
  alert,         \* the alert() shown by the last step, or NoAlert
  events         \* the number of user events so far

vars == <<store, nextId, now, pages, selectedPage, loading, title, content, dom,
          saving, uploading, tasks, alert, events>>

dashVars == <<pages, selectedPage, loading>>
editorVars == <<title, content, dom, saving, uploading>>
serverVars == <<store, nextId>>

\* ---------------------------------------------------------------- helpers
Add(b, t) == b (+) SetToBag({t})
Remove(b, t) == b (-) SetToBag({t})
Replace(b, t, u) == Add(Remove(b, t), u)
TaskSet == BagToSet(tasks)
NTasks == BagCardinality(tasks)

RECURSIVE SumBag(_, _)
SumBag(b, S) ==
  IF S = {} THEN 0
  ELSE LET e == CHOOSE x \in S : TRUE IN b[e] + SumBag(b, S \ {e})

\* a task of an Editor instance has a `live` flag: the instance is mounted
EditorKinds == {"timer", "update", "upload"}
Kill(t) == IF t.kind \in EditorKinds THEN [t EXCEPT !.live = FALSE] ELSE t

\* the Editor is unmounted: its timers and requests stay, their refs and
\* state setters act on nothing
Orphan(b) ==
  LET S == BagToSet(b)
      T == {Kill(e) : e \in S}
  IN [t \in T |-> SumBag(b, {e \in S : Kill(e) = t})]

RECURSIVE Filter(_, _)
\* pages.filter((p) => p.id !== pageId)
Filter(s, pageId) ==
  IF s = <<>> THEN <<>>
  ELSE IF Head(s).id # pageId THEN <<Head(s)>> \o Filter(Tail(s), pageId)
       ELSE Filter(Tail(s), pageId)

\* pages.map((p) => (p.id === updatedPage.id ? updatedPage : p))
MapUpdate(s, updatedPage) ==
  [i \in 1..Len(s) |-> IF s[i].id = updatedPage.id THEN updatedPage ELSE s[i]]

RECURSIVE OrderDesc(_)
\* .order('updated_at', { ascending: false })
OrderDesc(S) ==
  IF S = {} THEN <<>>
  ELSE LET m == CHOOSE p \in S : \A q \in S : q.updated_at <= p.updated_at
       IN <<m>> \o OrderDesc(S \ {m})

Rows == {store[i] : i \in DOMAIN store}

\* the row the table holds at start for id i
InitRow(i) ==
  [id |-> i, user_id |-> User,
   title |-> IF i % 2 = 0 THEN "Hello" ELSE "Untitled",
   content |-> IF i % 2 = 0 THEN <<"x">> ELSE <<>>,
   updated_at |-> i]

\* ------------------------------------------------------------------- Init
\* Dashboard has mounted: useState initial values, and the mount effect has
\* called fetchPages, whose request is sent.
FetchTask == [kind |-> "list", stage |-> "sent", data |-> <<>>]

Init ==
  /\ \E n \in 0..InitPages :
       /\ store = [i \in 1..n |-> InitRow(i)]
       /\ nextId = n + 1
       /\ now = InitPages
  /\ pages = <<>>
  /\ selectedPage = NoPage
  /\ loading = TRUE
  /\ title = ""
  /\ content = <<>>
  /\ dom = <<>>
  /\ saving = FALSE
  /\ uploading = FALSE
  /\ tasks = SetToBag({FetchTask})
  /\ alert = NoAlert
  /\ events = 0

\* ---------------------------------------------------- React: Editor key
\* setSelectedPage(p) with the tasks tk left by the step: <Editor
\* key={selectedPage.id}> keeps the instance while the id is the same, and
\* otherwise unmounts it and mounts a new one on p (useState(page.title),
\* useState(page.content), the effect that fills the content surface).
SetSelectedPage(p, tk) ==
  /\ selectedPage' = p
  /\ IF p.id = selectedPage.id
       THEN /\ UNCHANGED editorVars
            /\ tasks' = tk
       ELSE /\ title' = p.title
            /\ content' = p.content
            /\ dom' = p.content
            /\ saving' = FALSE
            /\ uploading' = FALSE
            /\ tasks' = Orphan(tk)

\* ------------------------------------------------------------ the backend
\* a request is lost or refused: the client gets an error, the table is
\* untouched
NetFail(t) ==
  /\ events' = events
  /\ t.kind # "timer"
  /\ t.stage = "sent"
  /\ tasks' = Replace(tasks, t, [t EXCEPT !.stage = "err"])
  /\ alert' = NoAlert
  /\ UNCHANGED <<serverVars, now, dashVars, editorVars>>

\* .from('pages').select('*').order('updated_at', { ascending: false })
ServeList(t) ==
  /\ events' = events
  /\ t.kind = "list" /\ t.stage = "sent"
  /\ tasks' = Replace(tasks, t, [t EXCEPT !.stage = "ok", !.data = OrderDesc(Rows)])
  /\ alert' = NoAlert
  /\ UNCHANGED <<serverVars, now, dashVars, editorVars>>

\* .insert([{ user_id, title: 'Untitled', content: '' }]).select().single()
NewRow(id, at) ==
  [id |-> id, user_id |-> User, title |-> "Untitled", content |-> <<>>,
   updated_at |-> at]

ServeInsert(t) ==
  /\ events' = events
  /\ t.kind = "insert" /\ t.stage = "sent"
  /\ LET row == NewRow(nextId, now + 1) IN
       /\ store' = [i \in DOMAIN store \cup {nextId} |->
                      IF i = nextId THEN row ELSE store[i]]
       /\ tasks' = Replace(tasks, t, [t EXCEPT !.stage = "ok", !.data = <<row>>])
  /\ nextId' = nextId + 1
  /\ now' = now + 1
  /\ alert' = NoAlert
  /\ UNCHANGED <<dashVars, editorVars>>

\* .update({ title, content, updated_at }).eq('id', page.id).select().single()
UpdatedRow(row, t) ==
  [row EXCEPT !.title = t.title, !.content = t.content,
              !.updated_at = t.updated_at]

\* .upsert({ id, user_id, title, content, updated_at }) in place of update
ServeUpdate_Upsert(t) ==
  /\ events' = events
  /\ t.kind = "update" /\ t.stage = "sent"
  /\ LET row == UpdatedRow(IF t.id \in DOMAIN store THEN store[t.id]
                           ELSE NewRow(t.id, now), t) IN
       /\ store' = [i \in DOMAIN store \cup {t.id} |->
                      IF i = t.id THEN row ELSE store[i]]
       /\ tasks' = Replace(tasks, t, [t EXCEPT !.stage = "ok", !.data = <<row>>])
  /\ alert' = NoAlert
  /\ UNCHANGED <<nextId, now, dashVars, editorVars>>

\* .single() is an error when no row matched
ServeUpdate(t) ==
  /\ events' = events
  /\ t.kind = "update" /\ t.stage = "sent"
  /\ IF t.id \in DOMAIN store
       THEN LET row == UpdatedRow(store[t.id], t) IN
              /\ store' = [store EXCEPT ![t.id] = row]
              /\ tasks' = Replace(tasks, t, [t EXCEPT !.stage = "ok", !.data = <<row>>])
       ELSE /\ store' = store
            /\ tasks' = Replace(tasks, t, [t EXCEPT !.stage = "err"])
  /\ alert' = NoAlert
  /\ UNCHANGED <<nextId, now, dashVars, editorVars>>

\* .delete().eq('id', pageId)
ServeDelete(t) ==
  /\ events' = events
  /\ t.kind = "delete" /\ t.stage = "sent"
  /\ store' = [i \in DOMAIN store \ {t.pageId} |-> store[i]]
  /\ tasks' = Replace(tasks, t, [t EXCEPT !.stage = "ok"])
  /\ alert' = NoAlert
  /\ UNCHANGED <<nextId, now, dashVars, editorVars>>

\* supabase.storage.from('page-images').upload(filePath, file)
ServeUpload(t) ==
  /\ events' = events
  /\ t.kind = "upload" /\ t.stage = "sent"
  /\ tasks' = Replace(tasks, t, [t EXCEPT !.stage = "ok"])
  /\ alert' = NoAlert
  /\ UNCHANGED <<serverVars, now, dashVars, editorVars>>

\* -------------------------------------------------------------- Dashboard
\* fetchPages without the setSelectedPage(data[0]) of line 299
FetchDone_NoSelect(t) ==
  /\ events' = events
  /\ t.kind = "list" /\ t.stage \in {"ok", "err"}
  /\ loading' = FALSE
  /\ alert' = NoAlert
  /\ pages' = IF t.stage = "ok" THEN t.data ELSE pages
  /\ tasks' = Remove(tasks, t)
  /\ UNCHANGED <<selectedPage, editorVars>>
  /\ UNCHANGED <<serverVars, now>>

\* fetchPages after its await; its closure is the mount render, where
\* selectedPage is null
FetchDone(t) ==
  /\ events' = events
  /\ t.kind = "list" /\ t.stage \in {"ok", "err"}
  /\ loading' = FALSE
  /\ alert' = NoAlert
  /\ IF t.stage = "ok"
       THEN /\ pages' = t.data
            /\ IF Len(t.data) > 0
                 THEN SetSelectedPage(t.data[1], Remove(tasks, t))
                 ELSE /\ tasks' = Remove(tasks, t)
                      /\ UNCHANGED <<selectedPage, editorVars>>
       ELSE /\ tasks' = Remove(tasks, t)
            /\ UNCHANGED <<pages, selectedPage, editorVars>>
  /\ UNCHANGED <<serverVars, now>>

\* createNewPage up to its await
ClickCreate ==
  /\ events < MaxEvents
  /\ events' = events + 1
  /\ ~loading
  /\ tasks' = Add(tasks, [kind |-> "insert", stage |-> "sent", data |-> <<>>,
                          pages |-> pages])
  /\ alert' = NoAlert
  /\ UNCHANGED <<serverVars, now, dashVars, editorVars>>

\* createNewPage after its await
CreateDone(t) ==
  /\ events' = events
  /\ t.kind = "insert" /\ t.stage \in {"ok", "err"}
  /\ alert' = NoAlert
  /\ IF t.stage = "ok"
       THEN /\ pages' = <<t.data[1]>> \o t.pages
            /\ SetSelectedPage(t.data[1], Remove(tasks, t))
       ELSE /\ tasks' = Remove(tasks, t)
            /\ UNCHANGED <<pages, selectedPage, editorVars>>
  /\ UNCHANGED <<serverVars, now, loading>>

\* deletePage(pages[i].id) up to its await; ok is the answer to confirm()
ClickDelete(i, ok) ==
  /\ events < MaxEvents
  /\ events' = events + 1
  /\ ~loading
  /\ i \in 1..Len(pages)
  /\ alert' = NoAlert
  /\ IF ok
       THEN /\ tasks' = Add(tasks, [kind |-> "delete", stage |-> "sent",
                                    pageId |-> pages[i].id, pages |-> pages,
                                    selId |-> selectedPage.id])
       ELSE tasks' = tasks
  /\ UNCHANGED <<serverVars, now, dashVars, editorVars>>

\* deletePage without `if (error) throw error`
DeleteDone_NoThrow(t) ==
  /\ events' = events
  /\ t.kind = "delete" /\ t.stage \in {"ok", "err"}
  /\ alert' = NoAlert
  /\ LET updatedPages == Filter(t.pages, t.pageId) IN
       /\ pages' = updatedPages
       /\ IF t.selId = t.pageId
            THEN SetSelectedPage(
                   IF Len(updatedPages) > 0 THEN updatedPages[1] ELSE NoPage,
                   Remove(tasks, t))
            ELSE /\ tasks' = Remove(tasks, t)
                 /\ UNCHANGED <<selectedPage, editorVars>>
  /\ UNCHANGED <<serverVars, now, loading>>

\* deletePage after its await
DeleteDone(t) ==
  /\ events' = events
  /\ t.kind = "delete" /\ t.stage \in {"ok", "err"}
  /\ alert' = NoAlert
  /\ IF t.stage = "ok"
       THEN LET updatedPages == Filter(t.pages, t.pageId) IN
              /\ pages' = updatedPages
              /\ IF t.selId = t.pageId
                   THEN SetSelectedPage(
                          IF Len(updatedPages) > 0 THEN updatedPages[1] ELSE NoPage,
                          Remove(tasks, t))
                   ELSE /\ tasks' = Remove(tasks, t)
                        /\ UNCHANGED <<selectedPage, editorVars>>
       ELSE /\ tasks' = Remove(tasks, t)
            /\ UNCHANGED <<pages, selectedPage, editorVars>>
  /\ UNCHANGED <<serverVars, now, loading>>

\* the list item's onClick
SelectPage(i) ==
  /\ events < MaxEvents
  /\ events' = events + 1
  /\ ~loading
  /\ i \in 1..Len(pages)
  /\ SetSelectedPage(pages[i], tasks)
  /\ alert' = NoAlert
  /\ UNCHANGED <<serverVars, now, pages, loading>>

\* ----------------------------------------------------------------- Editor
Mounted == ~loading /\ selectedPage # NoPage

LiveTimers(b) == {t \in BagToSet(b) : t.kind = "timer" /\ t.live}

\* clearTimeout(saveTimeoutRef.current): the pending timer of this instance
ClearTimeout(b) ==
  IF LiveTimers(b) = {} THEN b
  ELSE Remove(b, CHOOSE t \in LiveTimers(b) : TRUE)

\* setTimeout(() => savePage(newTitle, newContent), 1000), whose callback
\* holds page and onUpdate (and with it pages) of the current render
NewTimer(newTitle, newContent) ==
  [kind |-> "timer", id |-> selectedPage.id, title |-> newTitle,
   content |-> newContent, pages |-> pages, live |-> TRUE,
   remaining |-> SaveDelay]

\* a debouncedSave that leaves the previous timer running
debouncedSave_NoClear(b, newTitle, newContent) ==
  Add(b, NewTimer(newTitle, newContent))

debouncedSave(b, newTitle, newContent) ==
  Add(ClearTimeout(b), NewTimer(newTitle, newContent))

handleTitleChange(newTitle) ==
  /\ events < MaxEvents
  /\ events' = events + 1
  /\ Mounted
  /\ newTitle # title
  /\ title' = newTitle
  /\ tasks' = debouncedSave(tasks, newTitle, content)
  /\ alert' = NoAlert
  /\ UNCHANGED <<serverVars, now, dashVars, content, dom, saving, uploading>>

\* what one input event (typing, or a formatting command) can make of the
\* content surface d
ContentEdits(d) ==
  {Append(d, "x")} \cup (IF d # <<>> THEN {<<>>} ELSE {})

\* the surface has become newDom, and handleContentInput reads it
handleContentInput(newDom) ==
  /\ events < MaxEvents
  /\ events' = events + 1
  /\ Mounted
  /\ newDom \in ContentEdits(dom)
  /\ dom' = newDom
  /\ content' = newDom
  /\ tasks' = debouncedSave(tasks, title, newDom)
  /\ alert' = NoAlert
  /\ UNCHANGED <<serverVars, now, dashVars, title, saving, uploading>>

\* one quiet period passes: every timer pending now is due, and a due timer
\* runs at some later moment unless it is cleared first
Elapse(t) == IF t.kind = "timer" THEN [t EXCEPT !.remaining = 0] ELSE t

ElapseAll(b) ==
  LET S == BagToSet(b)
      T == {Elapse(e) : e \in S}
  IN [t \in T |-> SumBag(b, {e \in S : Elapse(e) = t})]

Tick ==
  /\ events' = events
  /\ \E t \in TaskSet : t.kind = "timer" /\ t.remaining > 0
  /\ tasks' = ElapseAll(tasks)
  /\ alert' = NoAlert
  /\ UNCHANGED <<serverVars, now, dashVars, editorVars>>

\* savePage(newTitle, newContent) up to its await, called from a closure of
\* an Editor render that held the Dashboard's pages `snap`; the caller is
\* the timer's callback or the try block of handleImageUpload
SaveRequest(id, newTitle, newContent, snap, live, caller) ==
  [kind |-> "update", stage |-> "sent", data |-> <<>>, id |-> id,
   title |-> newTitle, content |-> newContent, updated_at |-> now + 1,
   pages |-> snap, live |-> live, caller |-> caller]

\* the timer's callback
TimerFire(t) ==
  /\ events' = events
  /\ t.kind = "timer"
  /\ t.remaining = 0
  /\ tasks' = Replace(tasks, t, SaveRequest(t.id, t.title, t.content, t.pages, t.live, "timer"))
  /\ now' = now + 1
  /\ saving' = IF t.live THEN TRUE ELSE saving
  /\ alert' = NoAlert
  /\ UNCHANGED <<serverVars, dashVars, title, content, dom, uploading>>

\* onUpdate(updatedPage) of the render that held pages `snap`
onUpdate(snap, updatedPage, tk) ==
  /\ pages' = MapUpdate(snap, updatedPage)
  /\ SetSelectedPage(updatedPage, tk)

\* an onUpdate that keeps the entry of the current list when it is newer
\* than the record returned
SaveDone_NewestWins(t) ==
  /\ events' = events
  /\ t.kind = "update" /\ t.stage \in {"ok", "err"}
  /\ alert' = NoAlert
  /\ IF t.stage = "ok"
       THEN /\ pages' = [i \in 1..Len(pages) |->
                           IF /\ pages[i].id = t.data[1].id
                              /\ pages[i].updated_at < t.data[1].updated_at
                             THEN t.data[1] ELSE pages[i]]
            /\ IF t.live
                 THEN /\ selectedPage' = t.data[1]
                      /\ tasks' = Remove(tasks, t)
                      /\ saving' = FALSE
                      /\ UNCHANGED <<title, content, dom, uploading>>
                 ELSE SetSelectedPage(t.data[1], Remove(tasks, t))
       ELSE /\ tasks' = Remove(tasks, t)
            /\ saving' = IF t.live THEN FALSE ELSE saving
            /\ UNCHANGED <<pages, selectedPage, title, content, dom, uploading>>
  /\ UNCHANGED <<serverVars, now, loading>>

\* savePage after its await
SaveDone(t) ==
  /\ events' = events
  /\ t.kind = "update" /\ t.stage \in {"ok", "err"}
  /\ alert' = NoAlert
  /\ IF t.stage = "ok"
       THEN IF t.live
              THEN /\ pages' = MapUpdate(t.pages, t.data[1])
                   /\ selectedPage' = t.data[1]
                   /\ tasks' = Remove(tasks, t)
                   /\ saving' = FALSE
                   /\ UNCHANGED <<title, content, dom, uploading>>
              ELSE onUpdate(t.pages, t.data[1], Remove(tasks, t))
       ELSE /\ tasks' = Remove(tasks, t)
            /\ saving' = IF t.live THEN FALSE ELSE saving
            /\ UNCHANGED <<pages, selectedPage, title, content, dom, uploading>>
  /\ UNCHANGED <<serverVars, now, loading>>

\* file.type.includes('image')
IsImage_Includes(file) == \E i \in 1..Len(file) : file[i] = "image"

\* file.type.startsWith('image/')
IsImage(file) == file[1] = "image"

\* handleImageUpload up to its await
handleImageUpload(file) ==
  /\ events < MaxEvents
  /\ events' = events + 1
  /\ Mounted
  /\ ~uploading
  /\ file \in Files
  /\ IF file = NoFile
       THEN /\ alert' = NoAlert
            /\ UNCHANGED <<uploading, tasks>>
       ELSE IF ~IsImage(file)
         THEN /\ alert' = AlertNotImage
              /\ UNCHANGED <<uploading, tasks>>
         ELSE /\ uploading' = TRUE
              /\ tasks' = Add(tasks, [kind |-> "upload", stage |-> "sent",
                                      id |-> selectedPage.id, title |-> title,
                                      pages |-> pages, live |-> TRUE])
              /\ alert' = NoAlert
  /\ UNCHANGED <<serverVars, now, dashVars, title, content, dom, saving>>

\* the image without the paragraph after it
AppendImage_NoParagraph(d) == d \o <<ImgElement>>

\* appendChild(img); appendChild(document.createElement('p'))
AppendImage(d) == d \o <<ImgElement, PElement>>

\* handleImageUpload with setUploading(false) at the end of the try block
\* instead of in finally
UploadDone_NoFinally(t) ==
  /\ events' = events
  /\ t.kind = "upload" /\ t.stage \in {"ok", "err"}
  /\ IF t.stage = "ok"
       THEN /\ alert' = NoAlert
            /\ IF t.live
                 THEN /\ dom' = AppendImage(dom)
                      /\ content' = dom'
                      /\ tasks' = Replace(tasks, t,
                           SaveRequest(t.id, t.title, dom', t.pages, TRUE, "upload"))
                      /\ now' = now + 1
                      /\ saving' = TRUE
                      /\ uploading' = FALSE
                 ELSE /\ tasks' = Remove(tasks, t)
                      /\ UNCHANGED <<now, content, dom, saving, uploading>>
       ELSE /\ alert' = AlertUploadFailed
            /\ tasks' = Remove(tasks, t)
            /\ UNCHANGED <<now, content, dom, saving, uploading>>
  /\ UNCHANGED <<serverVars, dashVars, title>>

\* handleImageUpload after its await: contentRef.current is null once the
\* instance is unmounted
UploadDone(t) ==
  /\ events' = events
  /\ t.kind = "upload" /\ t.stage \in {"ok", "err"}
  /\ IF t.stage = "ok"
       THEN /\ alert' = NoAlert
            /\ IF t.live
                 THEN /\ dom' = AppendImage(dom)
                      /\ content' = dom'
                      /\ tasks' = Replace(tasks, t,
                           SaveRequest(t.id, t.title, dom', t.pages, TRUE, "upload"))
                      /\ now' = now + 1
                      /\ saving' = TRUE
                      /\ uploading' = FALSE
                 ELSE /\ tasks' = Remove(tasks, t)
                      /\ UNCHANGED <<now, content, dom, saving, uploading>>
       ELSE /\ alert' = AlertUploadFailed
            /\ tasks' = Remove(tasks, t)
            /\ uploading' = IF t.live THEN FALSE ELSE uploading
            /\ UNCHANGED <<now, content, dom, saving>>
  /\ UNCHANGED <<serverVars, dashVars, title>>

\* ------------------------------------------------------------------- Next
\* the initial load
Load ==
  \/ \E t \in TaskSet : ServeList(t)
  \/ \E t \in TaskSet : FetchDone(t)

\* the autosave path of the Editor
Autosave ==
  \/ \E newTitle \in Titles : handleTitleChange(newTitle)
  \/ Tick
  \/ \E t \in TaskSet : TimerFire(t)
  \/ \E t \in TaskSet : ServeUpdate(t)
  \/ \E t \in TaskSet : SaveDone(t)

\* the content surface and the image upload
Surface ==
  \/ \E newDom \in ContentEdits(dom) : handleContentInput(newDom)
  \/ \E file \in Files : handleImageUpload(file)
  \/ \E t \in TaskSet : ServeUpload(t)
  \/ \E t \in TaskSet : UploadDone(t)

\* create and delete in the page list
ListEdits ==
  \/ ClickCreate
  \/ \E t \in TaskSet : ServeInsert(t)
  \/ \E t \in TaskSet : CreateDone(t)
  \/ \E i \in 1..Len(pages), ok \in BOOLEAN : ClickDelete(i, ok)
  \/ \E t \in TaskSet : ServeDelete(t)
  \/ \E t \in TaskSet : DeleteDone(t)

Select == \E i \in 1..Len(pages) : SelectPage(i)

Fail == \E t \in TaskSet : NetFail(t)

\* the whole application
Next == Load \/ Fail \/ Select \/ Autosave \/ Surface \/ ListEdits

Spec == Init /\ [][Next]_vars

\* a promise that has settled has its continuation run: the rest of
\* fetchPages after the list is answered, the rest of handleImageUpload
\* after the upload is answered
SpecFair ==
  /\ Spec
  /\ WF_vars(\E t \in TaskSet : FetchDone(t))
  /\ WF_vars(\E t \in TaskSet : UploadDone(t))

\* one editor session in which every save request reaches the store: the
\* load, then title edits, content edits and uploads of the page it
\* selected; list, upload requests may fail, update requests do not, and
\* the page is neither left nor deleted
NextSession ==
  \/ Load
  \/ Autosave
  \/ Surface
  \/ \E t \in TaskSet : t.kind \in {"list", "upload"} /\ NetFail(t)

SpecSession == Init /\ [][NextSession]_vars

\* ----------------------------------------------------------------- claims
Count(b, t) == IF t \in DOMAIN b THEN b[t] ELSE 0
Before == BagToSet(tasks)
After == BagToSet(tasks')

\* the answer t has been taken off the tasks by this step
Answered(t) ==
  /\ t.stage \in {"ok", "err"}
  /\ Count(tasks', t) < Count(tasks, t)
  /\ Count(tasks', Kill(t)) <= Count(tasks, Kill(t))

\* the step is a title or content edit in the mounted Editor
EditStep ==
  /\ events' = events + 1
  /\ selectedPage' = selectedPage
  /\ title' # title \/ content' # content

\* the step sends no save request and answers none
SavesUntouched ==
  \A r \in Before \cup After :
    r.kind = "update" => Count(tasks', r) = Count(tasks, r)

\* the save request a timer callback of the mounted Editor sends for t
DebouncedRequest(t) ==
  [kind |-> "update", stage |-> "sent", data |-> <<>>, id |-> selectedPage.id,
   title |-> t.title, content |-> t.content, updated_at |-> now',
   pages |-> t.pages, live |-> TRUE, caller |-> "timer"]

\* C1: within one editor session an edit leaves exactly one scheduled save,
\* which holds the title and content as they are after that edit and a full
\* quiet period, and replaces the one scheduled before; no edit sends a save;
\* the scheduled save stays as it is until the next edit; it is sent only
\* once its quiet period has passed, as one request with that title and
\* content; and every other save request of the session comes from an
\* upload. So a burst of edits sends one request, after the quiet period
\* that follows its last edit, with the state after that edit.
C1_Coalescing ==
  [][ /\ EditStep =>
           /\ \E t \in LiveTimers(tasks') :
                /\ LiveTimers(tasks') = {t}
                /\ tasks'[t] = 1
                /\ t.title = title' /\ t.content = content'
                /\ t.id = selectedPage.id
                /\ t.remaining = SaveDelay
           /\ SavesUntouched
      /\ (~EditStep /\ LiveTimers(tasks) = {}) => LiveTimers(tasks') = {}
      /\ \A t \in LiveTimers(tasks) :
           (~EditStep /\ selectedPage'.id = selectedPage.id) =>
              \/ LiveTimers(tasks') = {t}
              \/ LiveTimers(tasks') = {Elapse(t)}
              \/ /\ t.remaining = 0
                 /\ LiveTimers(tasks') = {}
                 /\ tasks' = Replace(tasks, t, DebouncedRequest(t))
      /\ \A r \in After :
           (r.kind = "update" /\ r.stage = "sent" /\ r.live
              /\ Count(tasks', r) > Count(tasks, r)) =>
              \/ \E t \in LiveTimers(tasks) :
                   /\ t.remaining = 0
                   /\ r = DebouncedRequest(t)
                   /\ LiveTimers(tasks') = {}
              \/ \E u \in Before :
                   u.kind = "upload" /\ u.live /\ u.stage = "ok" /\ Answered(u)
    ]_vars

\* a burst of two edits (title, then content or the reverse) of the page the
\* list loaded has sent the one save of the run, with the state after the
\* second edit
C1_Witness ==
  /\ events = 2
  /\ now = InitPages + 1
  /\ title # selectedPage.title
  /\ content # selectedPage.content
  /\ NTasks = 1
  /\ \E r \in TaskSet :
       /\ r.kind = "update" /\ r.stage = "sent" /\ r.live
       /\ r.title = title /\ r.content = content

\* C2: after the selection has switched to another page, no timer of the
\* editor that was switched away sends a save request, and at the switch the
\* working title and content are those of the page switched to.
C2_SwitchCancelsTimer ==
  [][ /\ \A t \in Before :
           (t.kind = "timer" /\ ~t.live) =>
              ~(\E r \in After :
                  /\ r.kind = "update" /\ r.stage = "sent" /\ r.id = t.id
                  /\ Count(tasks', r) > Count(tasks, r)
                  /\ Count(tasks', t) < Count(tasks, t))
      /\ (selectedPage'.id # selectedPage.id /\ selectedPage' # NoPage) =>
           (title' = selectedPage'.title /\ content' = selectedPage'.content)
    ]_vars

\* the successful delete of id has been processed by the client
Deleted(id) ==
  /\ id \in 1..(nextId - 1)
  /\ id \notin DOMAIN store
  /\ ~\E t \in TaskSet : t.kind = "delete" /\ t.pageId = id

\* C3: the selected page is never a page whose delete has succeeded.
C3_SelectionNeverDeleted ==
  selectedPage # NoPage => ~Deleted(selectedPage.id)

\* C4: once the initial load has finished, the selection is null exactly when
\* the local collection is empty, and otherwise its id is the id of exactly
\* one page of the collection.
C4_SelectionInCollection ==
  ~loading =>
    /\ (selectedPage = NoPage) <=> (pages = <<>>)
    /\ selectedPage # NoPage =>
         Cardinality({i \in 1..Len(pages) : pages[i].id = selectedPage.id}) = 1

\* C5: the local collection is ordered by updated_at, descending.
C5_OrderedByUpdatedAt ==
  \A i, j \in 1..Len(pages) :
    i < j => pages[i].updated_at >= pages[j].updated_at

\* C6: processing the answer of a successful create makes the collection the
\* returned page followed by the collection as it was just before, and
\* selects the returned page.
C6_CreatePrepends ==
  [][ \A t \in Before :
        (t.kind = "insert" /\ t.stage = "ok" /\ Answered(t)) =>
          /\ pages' = <<t.data[1]>> \o pages
          /\ selectedPage' = t.data[1]
    ]_vars

\* C7: processing the answer of a successful save replaces, in the
\* collection as it was just before, the entry with the returned id and
\* changes nothing else.
C7_UpdateReplacesInPlace ==
  [][ \A t \in Before :
        (t.kind = "update" /\ t.stage = "ok" /\ Answered(t)) =>
          pages' = [i \in 1..Len(pages) |->
                      IF pages[i].id = t.data[1].id THEN t.data[1] ELSE pages[i]]
    ]_vars

\* C8: a save request sent by the timer of the mounted editor carries the
\* working title and content of the moment it is sent, and the id of the
\* editor's page.
C8_DebouncedSaveIsCurrent ==
  [][ \A t \in LiveTimers(tasks) :
        (Count(tasks', t) < Count(tasks, t) /\ selectedPage' = selectedPage
           /\ events' = events) =>
          \A r \in After :
            (r.kind = "update" /\ r.stage = "sent"
               /\ Count(tasks', r) > Count(tasks, r)) =>
              (r.title = title /\ r.content = content /\ r.id = selectedPage.id)
    ]_vars

\* the step processes the answer u of a successful upload as C9 says: the
\* content is the surface followed by one image and one paragraph, one save
\* request with that content is sent, and no timer is involved
UploadSavedAtOnce(u) ==
  /\ content' = dom \o <<"img", "p">>
  /\ dom' = content'
  /\ \E r \in After :
       /\ r.kind = "update" /\ r.stage = "sent"
       /\ r.content = content' /\ r.id = u.id
       /\ Count(tasks', r) = Count(tasks, r) + 1
       /\ tasks' = Replace(tasks, u, r)

UploadSucceeds(u) ==
  u.kind = "upload" /\ u.stage = "ok" /\ Answered(u)

\* C9 as stated: every successful upload appends the image and the paragraph
\* and sends the save in the same step.
C9_UploadSavesAtOnce ==
  [][ \A u \in Before : UploadSucceeds(u) => UploadSavedAtOnce(u) ]_vars

\* C9, amended: so it is while the editor that started the upload is still
\* mounted; once it is unmounted, a successful upload appends nothing and
\* sends no save.
C9_UploadSavesAtOnceMounted ==
  [][ \A u \in Before :
        UploadSucceeds(u) =>
          IF u.live
            THEN UploadSavedAtOnce(u)
            ELSE /\ content' = content /\ dom' = dom
                 /\ tasks' = Remove(tasks, u)
    ]_vars

\* the save of an upload is out while a timer scheduled before still has
\* its whole quiet period to run
C9_Witness ==
  /\ Len(content) >= 2
  /\ SubSeq(content, Len(content) - 1, Len(content)) = <<"img", "p">>
  /\ \E r \in TaskSet :
       r.kind = "update" /\ r.stage = "sent" /\ r.live /\ r.content = content
  /\ \E t \in LiveTimers(tasks) : t.remaining = SaveDelay

\* C10: selecting a file whose media type is not an image sends no request,
\* starts no timer, leaves the content and the surface as they are, shows
\* the alert and leaves the uploading flag false.
C10_NonImageRejected ==
  [][ \A file \in Files :
        (file # NoFile /\ file[1] # "image" /\ handleImageUpload(file)) =>
          /\ tasks' = tasks
          /\ content' = content /\ dom' = dom
          /\ alert' = "Please select an image file"
          /\ uploading' = FALSE
    ]_vars

\* the alert of a rejected file is up
C10_Witness ==
  /\ alert = "Please select an image file"
  /\ ~uploading
  /\ ~\E t \in TaskSet : t.kind \in {"upload", "update"}

\* the uploads the mounted Editor is waiting for
LiveUploads == {t \in TaskSet : t.kind = "upload" /\ t.live}

\* C11: the uploading flag is never left set. It is false in every state in
\* which the editor has no upload outstanding (and true while it has one);
\* the step that processes the answer of the editor's upload, success or
\* failure, leaves it false; and once the upload is answered the flag
\* eventually becomes false.
C11_UploadingCleared ==
  /\ [](uploading <=> LiveUploads # {})
  /\ [][ \A u \in Before :
           (u.kind = "upload" /\ u.live /\ Answered(u)) => ~uploading' ]_vars
  /\ (uploading /\ \E u \in LiveUploads : u.stage \in {"ok", "err"})
        ~> ~uploading

\* the one action of the run was an upload, it failed, and the flag is down
C11_Witness ==
  /\ events = 1
  /\ alert = "Failed to upload image"
  /\ selectedPage # NoPage
  /\ ~uploading
  /\ ~\E t \in TaskSet : t.kind = "upload"

\* C12: processing a failed upload shows an alert, leaves the working
\* content and the surface unchanged and sends no save; and processing the
\* failure of the save that handleImageUpload sent after a successful upload
\* shows an alert.
C12_UploadFailuresAlert ==
  [][ /\ \A u \in Before :
           (u.kind = "upload" /\ u.stage = "err" /\ Answered(u)) =>
              /\ alert' # NoAlert
              /\ content' = content /\ dom' = dom
              /\ \A r \in After :
                   r.kind = "update" => Count(tasks', r) <= Count(tasks, r)
      /\ \A r \in Before :
           (r.kind = "update" /\ r.caller = "upload" /\ r.stage = "err"
              /\ Answered(r)) =>
              alert' # NoAlert
    ]_vars

\* C13: processing the failure of a list, create, update or delete request
\* leaves the local collection, the selection and the working title and
\* content as they were (so applyUpdate has not run), and sends nothing:
\* the tasks are those of before without the failed request.
C13_FailureChangesNothing ==
  [][ \A t \in Before :
        (t.kind \in {"list", "insert", "update", "delete"} /\ t.stage = "err"
           /\ Answered(t)) =>
          /\ pages' = pages
          /\ selectedPage' = selectedPage
          /\ title' = title /\ content' = content /\ dom' = dom
          /\ tasks' = Remove(tasks, t)
    ]_vars

\* the one action of the run was a title edit whose save failed: the title
\* is kept, the list and the store still have the old one, nothing is out
C13_Witness ==
  /\ events = 1
  /\ selectedPage # NoPage
  /\ title # selectedPage.title
  /\ \A i \in 1..Len(pages) : pages[i] = store[pages[i].id]
  /\ NTasks = 0

\* the step adds the task r, other than by unmounting the Editor of a task
\* that was there
Sent(r) ==
  /\ Count(tasks', r) > Count(tasks, r)
  /\ ~\E o \in Before :
        o # r /\ Kill(o) = r /\ Count(tasks', o) < Count(tasks, o)

\* the step takes the task t away, other than by unmounting its Editor
Taken(t) ==
  /\ Count(tasks', t) < Count(tasks, t)
  /\ Count(tasks', Kill(t)) <= Count(tasks, Kill(t))

\* C14: a save never creates a row and never changes a row's identity.
\* Every timer and upload the editor starts holds the id of the editor's
\* page, and the save request that comes of it holds that same id; the step
\* in which the store takes a save request changes nothing but title,
\* content and updated_at of the row with that id, and changes nothing at
\* all when there is no such row; processing the answer leaves the store as
\* it is; and every row sits under its own id.
C14_SaveKeepsIdentity ==
  /\ [](\A i \in DOMAIN store : store[i].id = i /\ store[i].user_id = User)
  /\ [][ /\ \A s \in After :
              (s.kind \in {"timer", "upload"} /\ s.live /\ Sent(s)
                 /\ events' = events + 1) =>
                s.id = selectedPage.id
         /\ \A r \in After :
              (r.kind = "update" /\ r.stage = "sent" /\ Sent(r)) =>
                /\ \E s \in Before :
                     /\ s.kind \in {"timer", "upload"} /\ Taken(s)
                     /\ s.id = r.id /\ s.live = r.live
                /\ r.live => r.id = selectedPage.id
                /\ store' = store
         /\ \A t \in Before :
              (t.kind = "update" /\ t.stage = "sent" /\ Taken(t)) =>
                /\ DOMAIN store' = DOMAIN store
                /\ \A i \in DOMAIN store :
                     /\ i # t.id => store'[i] = store[i]
                     /\ store'[i].id = store[i].id
                     /\ store'[i].user_id = store[i].user_id
         /\ \A t \in Before :
              (t.kind = "update" /\ t.stage \in {"ok", "err"} /\ Taken(t)) =>
                store' = store
       ]_vars

\* a save for a page that has been deleted is answered: the store has no
\* row for it
C14_Witness ==
  \E t \in TaskSet :
    /\ t.kind = "update" /\ t.stage = "err"
    /\ t.id \in 1..(nextId - 1)
    /\ t.id \notin DOMAIN store

\* C15: processing the answer of the load makes the loading flag false; on
\* success the collection becomes the fetched sequence, in its order, the
\* first fetched page becomes the selection when none was selected and the
\* sequence is not empty, and the selection stays null when it is empty; on
\* failure the collection stays empty and the selection null. Until then
\* nothing is listed or selected, and once the load is answered the loading
\* flag eventually becomes false.
C15_Load ==
  /\ [](loading => pages = <<>> /\ selectedPage = NoPage)
  /\ [][ \A t \in Before :
           (t.kind = "list" /\ Answered(t)) =>
             /\ ~loading'
             /\ t.stage = "ok" =>
                  /\ pages' = t.data
                  /\ (selectedPage = NoPage /\ Len(t.data) > 0) =>
                       selectedPage' = t.data[1]
                  /\ t.data = <<>> => selectedPage' = NoPage
             /\ t.stage = "err" =>
                  pages' = <<>> /\ selectedPage' = NoPage
       ]_vars
  /\ (\E t \in TaskSet : t.kind = "list" /\ t.stage \in {"ok", "err"})
        ~> ~loading

\* the load has brought every stored page, newest first, and selected the
\* first
C15_Witness ==
  /\ events = 0
  /\ ~loading
  /\ Len(pages) = InitPages
  /\ pages = OrderDesc(Rows)
  /\ selectedPage = pages[1]
  /\ title = pages[1].title

\* C16: no order is enforced between save requests: the store can take any
\* request that is out, and the answer of any request can be processed,
\* whatever else is outstanding; and the step that processes the answer of a
\* successful save leaves the list entry with that id holding the record of
\* that answer, whichever request it belongs to.
C16_LastResponseWins ==
  /\ [](\A t \in TaskSet :
          t.kind = "update" =>
            IF t.stage = "sent" THEN ENABLED ServeUpdate(t)
                                ELSE ENABLED SaveDone(t))
  /\ [][ \A t \in Before :
           (t.kind = "update" /\ t.stage = "ok" /\ Answered(t)) =>
             \A i \in 1..Len(pages') :
               pages'[i].id = t.id => pages'[i] = t.data[1]
       ]_vars

\* two saves of one page have both been answered and processed, and the
\* list entry holds the record of the earlier request while the store holds
\* that of the later one
C16_Witness ==
  /\ ~\E t \in TaskSet : t.kind \in {"timer", "update", "upload"}
  /\ \E i \in 1..Len(pages) :
       /\ pages[i].id \in DOMAIN store
       /\ pages[i].updated_at > InitPages
       /\ pages[i].updated_at < store[pages[i].id].updated_at

\* C17: the step that processes the answer of a save leaves the id of the
\* selected page as it was.
C17_SaveKeepsSelection ==
  [][ \A t \in Before :
        (t.kind = "update" /\ t.stage \in {"ok", "err"} /\ Answered(t)) =>
          selectedPage'.id = selectedPage.id
    ]_vars

\* the mounted Editor has no timer scheduled and nothing is outstanding
Quiet ==
  /\ Mounted
  /\ ~\E t \in TaskSet : t.kind \in {"timer", "update", "upload"}

\* C18: whenever the editor has no timer scheduled and no save or upload
\* outstanding, and no save has failed, the stored title and content of
\* its page are its working title and content.
C18_Converges ==
  Quiet =>
    /\ store[selectedPage.id].title = title
    /\ store[selectedPage.id].content = content

\* C19: a page whose successful delete has been processed is not in the
\* local collection.
C19_DeletedStaysOut ==
  \A id \in 1..(nextId - 1) :
    Deleted(id) => ~\E i \in 1..Len(pages) : pages[i].id = id

\* the saves the mounted Editor has sent and whose answer it has not had
LiveSaves == {t \in TaskSet : t.kind = "update" /\ t.live}

\* C20: the saving flag of the mounted editor is true exactly while at
\* least one save it has sent is unanswered.
C20_SavingIsAccurate ==
  saving <=> LiveSaves # {}

====
